---- MODULE Spec2Model ----
(***************************************************************************)
(* Auto Hover Digitizer: HoverVertexTool (nearest-vertex hover query and   *)
(* marker overlay) and HoverVertexPlugin (action, toggle, unload), from    *)
(* src/auto_hover_digitizer/hover_tool.py.                                 *)
(*                                                                         *)
(* Coordinates are integers of a small grid.  The code compares Euclidean  *)
(* distances (QgsGeometry.distance); the model compares their squares,     *)
(* which orders non-negative distances the same way and keeps equality     *)
(* exact.                                                                  *)
(***************************************************************************)
EXTENDS Integers, Sequences, FiniteSets, TLC

\* ---------------------------------------------------------------- bounds
MaxX == 10
MaxY == 0
MaxMupp == 1
MaxFeatures == 2
MaxTools == 1
MaxActivations == 2
MaxEdited == 3

\* ------------------------------------------------------ program constants
TOLERANCE_PX == 8

\* ------------------------------------------------------- Python values
\* Values handed back by the host geometry API: lists, QgsPointXY, floats.
PyList(s) == [tag |-> "list", x |-> 0, y |-> 0, items |-> s]
PyPoint(x, y) == [tag |-> "QgsPointXY", x |-> x, y |-> y, items |-> <<>>]
PyFloat(v) == [tag |-> "float", x |-> v, y |-> 0, items |-> <<>>]

\* What a Python for-loop over the value yields: a list yields its elements,
\* a QgsPointXY yields its two coordinates (floats), a float is not iterable.
PyIter(v) ==
  CASE v.tag = "list" -> [ok |-> TRUE, val |-> v.items]
    [] v.tag = "QgsPointXY" -> [ok |-> TRUE, val |-> <<PyFloat(v.x), PyFloat(v.y)>>]
    [] OTHER -> [ok |-> FALSE, val |-> <<>>]

\* A map coordinate as stored in `vertices` and in the marker's centre.
XY(x, y) == [x |-> x, y |-> y]

\* --------------------------------------------------------- geometries
\* type is QgsGeometry.type(); multi tells a multi-part WKB type.
Geom(type, multi, empty, data) == [type |-> type, multi |-> multi, empty |-> empty, data |-> data]

Ring(pts) == PyList(pts)

Catalogue ==
  <<
    \* 1: Point (1,1)
    Geom("Point", FALSE, FALSE, PyPoint(1, 1)),
    \* 2: LineString (0,0) -> (10,0)
    Geom("Line", FALSE, FALSE, PyList(<<PyPoint(0, 0), PyPoint(10, 0)>>)),
    \* 3: MultiLineString ((0,0),(1,1)), ((1,0),(0,1))
    Geom("Line", TRUE, FALSE,
         PyList(<< PyList(<<PyPoint(0, 0), PyPoint(1, 1)>>),
                   PyList(<<PyPoint(1, 0), PyPoint(0, 1)>>) >>)),
    \* 4: MultiPolygon of two triangles
    Geom("Polygon", TRUE, FALSE,
         PyList(<< PyList(<< Ring(<<PyPoint(8, 0), PyPoint(10, 0), PyPoint(10, 2), PyPoint(8, 0)>>) >>),
                   PyList(<< Ring(<<PyPoint(0, 0), PyPoint(2, 0), PyPoint(0, 2), PyPoint(0, 0)>>) >>) >>)),
    \* 5: empty geometry
    Geom("Line", FALSE, TRUE, PyList(<<>>))
  >>

FeatureIds == DOMAIN Catalogue

\* All coordinates below a Python value, in storage order.
RECURSIVE Flatten(_)
RECURSIVE FlattenSeq(_)
Flatten(v) ==
  CASE v.tag = "QgsPointXY" -> <<XY(v.x, v.y)>>
    [] v.tag = "list" -> FlattenSeq(v.items)
    [] OTHER -> <<>>
FlattenSeq(s) == IF s = <<>> THEN <<>> ELSE Flatten(Head(s)) \o FlattenSeq(Tail(s))

\* The vertices a geometry really has.
GeomVertices(g) == IF g.empty THEN <<>> ELSE Flatten(g.data)

SeqToSet(s) == {s[i] : i \in DOMAIN s}

Min(S) == CHOOSE m \in S : \A n \in S : m <= n
Max(S) == CHOOSE m \in S : \A n \in S : m >= n

\* QgsGeometry.boundingBox() of a non-empty geometry.
boundingBox(g) ==
  LET vs == SeqToSet(GeomVertices(g)) IN
  [xmin |-> Min({v.x : v \in vs}), xmax |-> Max({v.x : v \in vs}),
   ymin |-> Min({v.y : v \in vs}), ymax |-> Max({v.y : v \in vs})]

\* Closed-rectangle intersection, as the index's range query decides it.
RectIntersects(a, b) ==
  /\ a.xmin <= b.xmax /\ b.xmin <= a.xmax
  /\ a.ymin <= b.ymax /\ b.ymin <= a.ymax

\* QgsGeometry.fromPointXY(cursor_pt).buffer(tolerance_map, 1).boundingBox()
BufferBox(p, tol) ==
  [xmin |-> p.x - tol, xmax |-> p.x + tol, ymin |-> p.y - tol, ymax |-> p.y + tol]

\* Squared distance between two points.
DistSq(a, b) == (a.x - b.x) * (a.x - b.x) + (a.y - b.y) * (a.y - b.y)

\* ----------------------------------------------- host geometry accessors
Ok(v) == [ok |-> TRUE, val |-> v]
Raise == [ok |-> FALSE, val |-> <<>>]

\* Each accessor raises TypeError unless the geometry has exactly its type.
asPoint(g) == IF g.type = "Point" /\ ~g.multi THEN Ok(g.data) ELSE Raise
asMultiPolygon(g) == IF g.type = "Polygon" /\ g.multi THEN Ok(g.data.items) ELSE Raise
asMultiPolyline(g) == IF g.type = "Line" /\ g.multi THEN Ok(g.data.items) ELSE Raise
asPolyline(g) == IF g.type = "Line" /\ ~g.multi THEN Ok(g.data.items) ELSE Raise

\* ------------------------------------------------ vertex decomposition
\* [QgsPointXY(v.x(), v.y()) for v in seg]: raises when seg is not iterable
\* or an item has no x()/y().
PointXYList(seg) ==
  LET it == PyIter(seg) IN
  IF it.ok /\ \A i \in DOMAIN it.val : it.val[i].tag = "QgsPointXY"
  THEN Ok([i \in DOMAIN it.val |-> XY(it.val[i].x, it.val[i].y)])
  ELSE Raise

\* for seg in segs: vertices.extend([... for v in seg])
\* An exception leaves what was already appended and ends the loop.
RECURSIVE ExtendEach(_, _)
ExtendEach(vertices, segs) ==
  IF segs = <<>> THEN Ok(vertices)
  ELSE LET r == PointXYList(Head(segs)) IN
       IF r.ok THEN ExtendEach(vertices \o r.val, Tail(segs))
       ELSE [ok |-> FALSE, val |-> vertices]

\* for part in parts: for seg in part: vertices.extend(...)
RECURSIVE ExtendParts(_, _)
ExtendParts(vertices, parts) ==
  IF parts = <<>> THEN Ok(vertices)
  ELSE LET it == PyIter(Head(parts)) IN
       IF ~it.ok THEN [ok |-> FALSE, val |-> vertices]
       ELSE LET r == ExtendEach(vertices, it.val) IN
            IF r.ok THEN ExtendParts(r.val, Tail(parts)) ELSE r

\* try asPolyline
TryPolyline(vertices, g) ==
  LET a == asPolyline(g) IN
  IF a.ok THEN ExtendEach(vertices, a.val).val ELSE vertices

\* try asMultiPolyline, except: try asPolyline
TryMultiPolyline(vertices, g) ==
  LET a == asMultiPolyline(g) IN
  IF ~a.ok THEN TryPolyline(vertices, g)
  ELSE LET r == ExtendParts(vertices, a.val) IN
       IF r.ok THEN r.val ELSE TryPolyline(r.val, g)

\* try asMultiPolygon, except: try asMultiPolyline ...
TryMultiPolygon(vertices, g) ==
  LET a == asMultiPolygon(g) IN
  IF ~a.ok THEN TryMultiPolyline(vertices, g)
  ELSE LET r == ExtendParts(vertices, a.val) IN
       IF r.ok THEN r.val ELSE TryMultiPolyline(r.val, g)

\* The `vertices` list of one candidate feature.
Vertices(g) ==
  IF g.type = "Point"
  THEN LET a == asPoint(g) IN IF a.ok THEN <<XY(a.val.x, a.val.y)>> ELSE <<>>
  ELSE TryMultiPolygon(<<>>, g)

\* The `vertices` list of each feature of the catalogue.
FeatureVertices == [fid \in FeatureIds |-> Vertices(Catalogue[fid])]

\* ------------------------------------------------------------ host layers
None == 0
LayerIds == 1 .. 3

\* QgsMapLayer.type() of each layer of the project: layer 1 is a raster.
LayerType(l) == IF l = 1 THEN "RasterLayer" ELSE "VectorLayer"

\* --------------------------------------------------------------- state
VARIABLES
  features,    \* host: layer id -> ids of the features the layer holds
  selected,    \* host: layerTreeRoot().selectedLayersRecursive()
  registry,    \* host: QgsProject.instance().mapLayers().values()
  selApiOk,    \* host: whether selectedLayersRecursive() exists
  action,      \* HoverVertexPlugin.action: "unset" | "set" | "removed"
  checked,     \* QAction checked state
  tool,        \* HoverVertexPlugin.tool: a tool instance id or None
  mapTool,     \* canvas.mapTool(): a tool instance id or None
  toolCount,   \* HoverVertexTool instances constructed so far
  toolLimit,   \* how many instances the behaviour may construct
  self,        \* the instance built last: its id or None
  supplied,    \* the layer argument self was constructed with
  layer,       \* self.layer
  index,       \* self.index
  marker,      \* self.marker: a scene item id or None
  center,      \* self.marker.center(), NoCenter while there is no marker
  scene,       \* canvas.scene(): the marker items it holds, each with its owner
  lastEvent,   \* the move event self handled last, NoEvent after any other operation
  exc,         \* the last operation let an exception reach the host
  aborted      \* self.layer of the instance whose constructor raised in the last operation

vars == <<features, selected, registry, selApiOk, toolLimit, action, checked, tool, mapTool,
          toolCount, self, supplied, layer, index, marker, center, scene, lastEvent, exc,
          aborted>>

hostVars == <<features, selected, registry, selApiOk, toolLimit>>
pluginVars == <<action, checked, tool>>
toolVars == <<toolCount, self, supplied, layer, index>>

NoIndex == [built |-> FALSE, entries |-> <<>>]
NoCenter == XY(-1, -1)
\* A handled move event: the cursor point, the scale, whether the event before
\* it was the same event, and where the marker was before it ("absent", or
\* shown at the "same" or at an "other" place than after it).
\* A handled event also tells whether the handler went on to query the index.
NoEvent ==
  [cursor |-> XY(-1, -1), mupp |-> 0, repeated |-> FALSE, prior |-> "absent", queried |-> FALSE]

\* Faulty variant: the handler never returns early.
Disabled_never == FALSE

\* not self.layer or not self.index
Disabled == layer = None \/ ~index.built

Event(cursor_pt, mupp) ==
  [cursor |-> cursor_pt, mupp |-> mupp, queried |-> ~Disabled,
   repeated |-> lastEvent.cursor = cursor_pt /\ lastEvent.mupp = mupp,
   prior |-> IF marker = None THEN "absent" ELSE IF center' = center THEN "same" ELSE "other"]

Cursors == {XY(x, y) : x \in 0 .. MaxX, y \in 0 .. MaxY}
Mupps == 1 .. MaxMupp

\* ------------------------------------------------------- spatial index
\* Sequences that list every element of S once.
RECURSIVE Orders(_)
Orders(S) ==
  IF S = {} THEN {<<>>}
  ELSE UNION {{<<e>> \o o : o \in Orders(S \ {e})} : e \in S}

\* insertFeature fails for a feature whose geometry has no bounding box.
Insertable(fid) == ~Catalogue[fid].empty

\* The bounding box the index keeps for each insertable feature.
FeatureBox == [fid \in {f \in FeatureIds : Insertable(f)} |-> boundingBox(Catalogue[fid])]

\* The entries of an index built from the features listed in order, the
\* order in which a range query reports them.
IndexOf(order) ==
  [built |-> TRUE,
   entries |-> [i \in DOMAIN order |-> [fid |-> order[i], box |-> FeatureBox[order[i]]]]]

\* Faulty variant: a failed insertion loses what was inserted before it.
InsertFeature_discardOnFailure(fids, fid) == IF Insertable(fid) THEN fids \cup {fid} ELSE {}

\* try: self.index.insertFeature(f) / except: pass
InsertFeature(fids, fid) == IF Insertable(fid) THEN fids \cup {fid} ELSE fids

\* for f in feats: insert each feature of the list in turn
RECURSIVE InsertAll(_, _)
InsertAll(fids, feats) ==
  IF feats = <<>> THEN fids
  ELSE InsertAll(InsertFeature(fids, Head(feats)), Tail(feats))

\* self.index.intersects(rect): ids of the entries whose box meets rect.
RECURSIVE intersects(_, _)
intersects(entries, rect) ==
  IF entries = <<>> THEN <<>>
  ELSE (IF RectIntersects(Head(entries).box, rect) THEN <<Head(entries).fid>> ELSE <<>>)
       \o intersects(Tail(entries), rect)

\* ------------------------------------------------- nearest-vertex search
NoNearest == [vertex |-> XY(-1, -1), dist |-> -1]

\* Faulty variant: a later vertex at an equal distance replaces the kept one.
Closer_orEqual(d, nearest) == nearest.dist = -1 \/ d <= nearest.dist

\* nearest_dist is None or d < nearest_dist
Closer(d, nearest) == nearest.dist = -1 \/ d < nearest.dist

\* for v in vertices: keep the closest so far
RECURSIVE NearestIn(_, _, _)
NearestIn(nearest, vertices, cursor_pt) ==
  IF vertices = <<>> THEN nearest
  ELSE LET d == DistSq(Head(vertices), cursor_pt) IN
       NearestIn(IF Closer(d, nearest) THEN [vertex |-> Head(vertices), dist |-> d] ELSE nearest,
                 Tail(vertices), cursor_pt)

\* Faulty variant: the first candidate that cannot be fetched, or whose
\* geometry is empty, ends the search.
RECURSIVE NearestOver_stopAtFailure(_, _, _, _)
NearestOver_stopAtFailure(nearest, candidate_ids, feats, cursor_pt) ==
  IF candidate_ids = <<>> THEN nearest
  ELSE LET fid == Head(candidate_ids) IN
       IF fid \notin feats \/ Catalogue[fid].empty
       THEN nearest
       ELSE NearestOver_stopAtFailure(NearestIn(nearest, FeatureVertices[fid], cursor_pt),
                                      Tail(candidate_ids), feats, cursor_pt)

\* for fid in candidate_ids: fetch the feature afresh, skip it when the
\* fetch fails or its geometry is empty, else search its vertices.
RECURSIVE NearestOver(_, _, _, _)
NearestOver(nearest, candidate_ids, feats, cursor_pt) ==
  IF candidate_ids = <<>> THEN nearest
  ELSE LET fid == Head(candidate_ids) IN
       IF fid \notin feats \/ Catalogue[fid].empty
       THEN NearestOver(nearest, Tail(candidate_ids), feats, cursor_pt)
       ELSE NearestOver(NearestIn(nearest, FeatureVertices[fid], cursor_pt),
                        Tail(candidate_ids), feats, cursor_pt)

\* tolerance_map = max(TOLERANCE_PX * mupp, 0.0)
ToleranceMap(mupp) == IF TOLERANCE_PX * mupp > 0 THEN TOLERANCE_PX * mupp ELSE 0

\* Faulty variant: the nearest candidate vertex is accepted without the tolerance test.
WithinTolerance_anyCandidate(dist, tolerance_map) == dist >= 0

\* nearest_dist <= tolerance_map
WithinTolerance(dist, tolerance_map) == dist <= tolerance_map * tolerance_map

\* ---------------------------------------------------------- the marker
FreshItem == Min((1 .. Cardinality(scene) + 1) \ {i.id : i \in scene})

\* Faulty variant: a marker is created on every hit.
show_marker_recreate(pt) ==
  /\ marker' = FreshItem
  /\ scene' = scene \cup {[id |-> FreshItem, owner |-> self]}
  /\ center' = pt

\* Faulty variant: a marker that exists is left where it is.
show_marker_sticky(pt) ==
  IF marker = None
  THEN /\ marker' = FreshItem
       /\ scene' = scene \cup {[id |-> FreshItem, owner |-> self]}
       /\ center' = pt
  ELSE UNCHANGED <<marker, scene, center>>

\* _show_marker(pt): create the marker once, then move it.
show_marker(pt) ==
  IF marker = None
  THEN /\ marker' = FreshItem
       /\ scene' = scene \cup {[id |-> FreshItem, owner |-> self]}
       /\ center' = pt
  ELSE /\ UNCHANGED <<marker, scene>>
       /\ center' = pt

\* Faulty variant: the marker is forgotten but stays in the scene.
clear_marker_keepItem ==
  IF marker # None
  THEN /\ scene' = scene
       /\ marker' = None
       /\ center' = NoCenter
  ELSE UNCHANGED <<marker, center, scene>>

\* _clear_marker(): remove the marker from the scene and forget it.
clear_marker ==
  IF marker # None
  THEN /\ scene' = {i \in scene : i.id # marker}
       /\ marker' = None
       /\ center' = NoCenter
  ELSE UNCHANGED <<marker, center, scene>>

\* ------------------------------------------------------ canvasMoveEvent
canvasMoveEvent(cursor_pt, mupp) ==
  /\ self # None /\ mapTool = self
  /\ exc' = FALSE /\ aborted' = None
  /\ UNCHANGED <<hostVars, pluginVars, toolVars, mapTool>>
  /\ IF Disabled
     THEN UNCHANGED <<marker, center, scene>>
     ELSE LET tolerance_map == ToleranceMap(mupp)
              candidate_ids == intersects(index.entries, BufferBox(cursor_pt, tolerance_map))
              nearest == NearestOver(NoNearest, candidate_ids, features[layer], cursor_pt)
          IN IF candidate_ids = <<>>
             THEN clear_marker
             ELSE IF nearest.dist # -1 /\ WithinTolerance(nearest.dist, tolerance_map)
                  THEN show_marker(nearest.vertex)
                  ELSE clear_marker
  /\ lastEvent' = Event(cursor_pt, mupp)

\* ------------------------------------------- _prepare_layer_and_index
\* The first vector layer of the registry, in registry order.
RECURSIVE FirstVectorLayer(_)
FirstVectorLayer(reg) ==
  IF reg = <<>> THEN None
  ELSE IF LayerType(Head(reg)) = "VectorLayer" THEN Head(reg)
  ELSE FirstVectorLayer(Tail(reg))

\* Faulty variant: the last selected layer is taken instead of the first.
ChooseLayer_lastSelected(given, sel, reg, apiOk) ==
  IF given # None THEN given
  ELSE LET selection == IF apiOk THEN sel ELSE <<>> IN
       IF selection # <<>> THEN selection[Len(selection)] ELSE FirstVectorLayer(reg)

\* self.layer after the selection part of _prepare_layer_and_index.
ChooseLayer(given, sel, reg, apiOk) ==
  IF given # None THEN given
  ELSE LET selection == IF apiOk THEN sel ELSE <<>> IN
       IF selection # <<>> THEN selection[1] ELSE FirstVectorLayer(reg)

\* self.layer.getFeatures() exists on vector layers only.
HasGetFeatures(l) == LayerType(l) = "VectorLayer"

\* HoverVertexTool(canvas, given) raises: the chosen layer has no getFeatures.
ConstructRaises(given) ==
  LET l == ChooseLayer(given, selected, registry, selApiOk) IN
  l # None /\ ~HasGetFeatures(l)

\* HoverVertexTool(canvas, given) returns a new instance.  The layer hands
\* its features over in an order of its own, and the order in which the built
\* index reports its entries is the index's own.
Construct(given) ==
  LET l == ChooseLayer(given, selected, registry, selApiOk) IN
  /\ ~ConstructRaises(given)
  /\ supplied' = given
  /\ toolCount' = toolCount + 1
  /\ self' = toolCount + 1
  /\ layer' = l
  /\ marker' = None
  /\ center' = NoCenter
  /\ IF l = None
     THEN index' = NoIndex
     ELSE \E feats \in Orders(features[l]) :
            \E order \in Orders(InsertAll({}, feats)) : index' = IndexOf(order)

\* ------------------------------------------------------------ the plugin
\* HoverVertexPlugin.initGui
initGui ==
  /\ action = "unset"
  /\ action' = "set"
  /\ exc' = FALSE /\ aborted' = None
  /\ lastEvent' = NoEvent
  /\ UNCHANGED <<hostVars, checked, tool, mapTool, toolVars, marker, center, scene>>

\* canvas.unsetMapTool(t): only the active tool is unset.
unsetMapTool(t) == mapTool' = IF t # None /\ mapTool = t THEN None ELSE mapTool

\* _toggle_tool(True), the action being triggered while unchecked
ToggleOn ==
  /\ action = "set" /\ ~checked
  /\ toolCount < toolLimit
  /\ checked' = TRUE
  /\ lastEvent' = NoEvent
  /\ UNCHANGED <<hostVars, action, scene>>
  /\ \/ /\ ConstructRaises(None)
        /\ exc' = TRUE
        /\ aborted' = ChooseLayer(None, selected, registry, selApiOk)
        /\ UNCHANGED <<tool, mapTool, toolVars, marker, center>>
     \/ /\ Construct(None)
        /\ tool' = self'
        /\ mapTool' = self'
        /\ exc' = FALSE /\ aborted' = None

\* _toggle_tool(False), the action being triggered while checked
ToggleOff ==
  /\ action = "set" /\ checked
  /\ checked' = FALSE
  /\ lastEvent' = NoEvent
  /\ exc' = FALSE /\ aborted' = None
  /\ UNCHANGED <<hostVars, action, toolVars, marker, center, scene>>
  /\ IF tool # None
     THEN unsetMapTool(tool) /\ tool' = None
     ELSE UNCHANGED <<tool, mapTool>>

\* Faulty variant: the action is removed and the tool is left active.
unload_keepTool ==
  /\ action = "set"
  /\ action' = "removed"
  /\ exc' = FALSE /\ aborted' = None
  /\ lastEvent' = NoEvent
  /\ UNCHANGED <<hostVars, checked, tool, mapTool, toolVars, marker, center, scene>>

\* HoverVertexPlugin.unload
unload ==
  /\ action = "set"
  /\ unsetMapTool(IF mapTool = tool THEN tool ELSE None)
  /\ action' = "removed"
  /\ exc' = FALSE /\ aborted' = None
  /\ lastEvent' = NoEvent
  /\ UNCHANGED <<hostVars, checked, tool, toolVars, marker, center, scene>>

\* canvas.setMapTool(HoverVertexTool(canvas, given)): the tool built with
\* an explicit layer and made the active tool.
SetMapTool(given) ==
  /\ toolCount < toolLimit
  /\ lastEvent' = NoEvent
  /\ UNCHANGED <<hostVars, pluginVars, scene>>
  /\ \/ /\ ConstructRaises(given)
        /\ exc' = TRUE
        /\ aborted' = ChooseLayer(given, selected, registry, selApiOk)
        /\ UNCHANGED <<mapTool, toolVars, marker, center>>
     \/ /\ Construct(given)
        /\ mapTool' = self'
        /\ exc' = FALSE /\ aborted' = None

\* Faulty variant: the index of the instance follows the edit.
EditLayer_reindex(l, fid) ==
  /\ features' = [features EXCEPT ![l] = IF fid \in @ THEN @ \ {fid} ELSE @ \cup {fid}]
  /\ Cardinality(features'[l]) <= MaxEdited
  /\ lastEvent' = NoEvent
  /\ exc' = FALSE /\ aborted' = None
  /\ IF l = layer /\ index.built
     THEN \E order \in Orders(InsertAll({}, CHOOSE feats \in Orders(features'[l]) : TRUE)) :
            index' = IndexOf(order)
     ELSE index' = index
  /\ UNCHANGED <<selected, registry, selApiOk, toolLimit, pluginVars, mapTool,
                 toolCount, self, supplied, layer, marker, center, scene>>

\* The host edits layer l: feature fid is added to it, or deleted from it.
\* No signal of the layer is connected, so nothing of the plugin runs.
EditLayer(l, fid) ==
  /\ features' = [features EXCEPT ![l] = IF fid \in @ THEN @ \ {fid} ELSE @ \cup {fid}]
  /\ Cardinality(features'[l]) <= MaxEdited
  /\ lastEvent' = NoEvent
  /\ exc' = FALSE /\ aborted' = None
  /\ UNCHANGED <<selected, registry, selApiOk, toolLimit, pluginVars, toolVars, mapTool,
                 marker, center, scene>>

MoveEvent == \E cursor_pt \in Cursors, mupp \in Mupps : canvasMoveEvent(cursor_pt, mupp)

\* ----------------------------------------------------------- behaviours
LayerContents == {S \in SUBSET FeatureIds : Cardinality(S) <= MaxFeatures}

\* Sequences without repetition of at most n layers.
LayerLists(n) == UNION {Orders(S) : S \in {T \in SUBSET LayerIds : Cardinality(T) <= n}}

InitPlugin ==
  /\ action = "unset" /\ checked = FALSE /\ tool = None /\ mapTool = None
  /\ toolCount = 0 /\ self = None /\ supplied = None /\ layer = None /\ index = NoIndex
  /\ marker = None /\ center = NoCenter /\ scene = {} /\ lastEvent = NoEvent /\ exc = FALSE /\ aborted = None

\* One project whose layer 2 holds any small set of features; one tool is built.
Init ==
  /\ \E S \in LayerContents :
       features = [l \in LayerIds |-> IF l = 2 THEN S ELSE IF l = 3 THEN {1} ELSE {}]
  /\ selected = <<>>
  /\ registry = <<1, 2, 3>>
  /\ selApiOk = TRUE
  /\ toolLimit = MaxTools
  /\ InitPlugin

Next ==
  \/ initGui
  \/ ToggleOn
  \/ ToggleOff
  \/ unload
  \/ MoveEvent

Spec == Init /\ [][Next]_vars

\* Every small project (selection, registry, availability of the selection
\* call) over fixed layer contents; tools are built again and again, also
\* with an explicit layer.
MaxListed == 2
ProbeCursors == {XY(1, 0), XY(10, 0)}

InitLayers ==
  /\ features = [l \in LayerIds |-> IF l = 2 THEN {1} ELSE IF l = 3 THEN {4} ELSE {}]
  /\ selected \in LayerLists(MaxListed)
  /\ registry \in LayerLists(MaxListed)
  /\ selApiOk \in BOOLEAN
  /\ toolLimit = MaxActivations
  /\ InitPlugin

ProbeEvent == \E cursor_pt \in ProbeCursors : canvasMoveEvent(cursor_pt, 1)

NextLayers ==
  \/ initGui
  \/ ToggleOn
  \/ ToggleOff
  \/ unload
  \/ \E given \in LayerIds : SetMapTool(given)
  \/ ProbeEvent

SpecLayers == InitLayers /\ [][NextLayers]_vars

\* One project whose layer 2 is edited while tools are active: features are
\* added to it and deleted from it between activations and move events.
Editable == {1, 2, 4}

InitEdits ==
  /\ features = [l \in LayerIds |-> IF l = 2 THEN {1, 4} ELSE {}]
  /\ selected = <<2>>
  /\ registry = <<1, 2>>
  /\ selApiOk = TRUE
  /\ toolLimit = MaxActivations
  /\ InitPlugin

NextEdits ==
  \/ initGui
  \/ ToggleOn
  \/ ToggleOff
  \/ \E fid \in Editable : EditLayer(2, fid)
  \/ ProbeEvent

SpecEdits == InitEdits /\ [][NextEdits]_vars

\* ================================================================ claims
\* The last operation was a move event handled by an instance that has a
\* layer and an index.
Handled == lastEvent.mupp # 0 /\ layer # None /\ index.built

\* The cursor point P and the tolerance t of the handled event.
P == lastEvent.cursor
T == TOLERANCE_PX * lastEvent.mupp

\* The vertices each feature of the catalogue really has.
TrueVertices == [fid \in FeatureIds |-> SeqToSet(GeomVertices(Catalogue[fid]))]

\* Every vertex of every feature of the layer.
LayerVertexSet == UNION {TrueVertices[f] : f \in features[layer]}

\* d(P)^2: the squared distance from P to the nearest vertex of the layer.
TrueNearestSq == Min({DistSq(v, P) : v \in LayerVertexSet})

\* The instance's marker is in the scene, and is its only item there.
MarkerShown ==
  /\ marker # None
  /\ {i \in scene : i.owner = self} = {[id |-> marker, owner |-> self]}

\* The instance has no marker and no item of its own in the scene.
MarkerAbsent ==
  /\ marker = None /\ center = NoCenter
  /\ \A i \in scene : i.owner # self

\* The candidates of the handled event, in the order the index reports them.
Candidates == intersects(index.entries, BufferBox(P, T))

\* The vertices the handled event met, in iteration order: candidates in
\* index-result order, then vertices in extraction order.
RECURSIVE EncounteredOf(_)
EncounteredOf(ids) ==
  IF ids = <<>> THEN <<>>
  ELSE (IF Head(ids) \in features[layer] THEN FeatureVertices[Head(ids)] ELSE <<>>)
       \o EncounteredOf(Tail(ids))
Encountered == EncounteredOf(Candidates)

\* C1: if the nearest vertex of the layer is within the tolerance of the
\* cursor, then after the move event the marker exists and sits at a vertex
\* of the layer that is at the minimum distance over all features' vertices.
C1_MarkerAtTrueNearest ==
  Handled =>
    LET V == LayerVertexSet
        dmin == Min({DistSq(v, P) : v \in V})
    IN (V # {} /\ dmin <= T * T)
         => (MarkerShown /\ center \in V /\ DistSq(center, P) = dmin)

\* C2: if the nearest vertex of the layer is farther than the tolerance (or
\* the layer has no vertex at all), then after the move event the marker is
\* absent: self.marker is None and no marker of the instance is in the scene.
C2_FarMeansAbsent ==
  (Handled /\ (LayerVertexSet = {} \/ TrueNearestSq > T * T)) => MarkerAbsent

\* A move event that removed a shown marker because the nearest vertex, though
\* inside the query rectangle, is beyond the tolerance.
C2_Witness ==
  /\ Handled /\ LayerVertexSet # {} /\ TrueNearestSq > T * T
  /\ Candidates # <<>>
  /\ lastEvent.prior = "other" /\ marker = None

\* C3: a nearest vertex at a distance exactly equal to tolerance_map is a
\* hit: the marker is shown at a vertex at that distance.
C3_BoundaryIsHit ==
  Handled =>
    LET V == LayerVertexSet
        dmin == Min({DistSq(v, P) : v \in V})
    IN (V # {} /\ dmin = T * T)
         => (MarkerShown /\ center \in V /\ DistSq(center, P) = T * T)

\* C4: the marker is placed at the first vertex, in iteration order, among
\* the encountered vertices at the minimum distance.
C4_FirstEncounteredWins ==
  (Handled /\ marker # None) =>
    LET met == Encountered IN
    \E i \in DOMAIN met :
      /\ center = met[i]
      /\ \A j \in DOMAIN met :
           /\ DistSq(met[j], P) >= DistSq(met[i], P)
           /\ (j < i => DistSq(met[j], P) > DistSq(met[i], P))

\* A hit with two different encountered vertices tied at the minimum distance.
C4_Witness ==
  /\ Handled /\ marker # None
  /\ LET met == Encountered IN
     \E i, j \in DOMAIN met :
       /\ i < j /\ met[i] # met[j]
       /\ DistSq(met[i], P) = DistSq(center, P)
       /\ DistSq(met[j], P) = DistSq(center, P)

\* The decomposition policy: the single point of a Point, else every ring
\* vertex of every part of a multi-polygon, else every vertex of every part
\* of a multi-polyline, else every vertex of a single polyline.
PolicyVertices(g) ==
  IF g.type = "Point" /\ ~g.multi THEN Flatten(g.data)
  ELSE IF g.type = "Polygon" /\ g.multi THEN Flatten(g.data)
  ELSE IF g.type = "Line" /\ g.multi THEN Flatten(g.data)
  ELSE IF g.type = "Line" /\ ~g.multi THEN Flatten(g.data)
  ELSE <<>>

\* C5: for each candidate feature of a move event the vertices used are
\* those of the first decomposition policy that yields any.
C5_DecompositionPolicy ==
  Handled =>
    \A i \in DOMAIN Candidates :
      LET g == Catalogue[Candidates[i]] IN
      Candidates[i] \in features[layer] => FeatureVertices[Candidates[i]] = PolicyVertices(g)

\* C6: with the one line (0,0) -> (10,0), the cursor above its middle
\* (x = 5) and mapUnitsPerPixel = 1, the move event shows the marker at
\* (0,0) or (10,0).
C6_ScenarioALine ==
  (Handled /\ features[layer] = {2} /\ P.x = 5 /\ lastEvent.mupp = 1)
    => (MarkerShown /\ center \in {XY(0, 0), XY(10, 0)})

\* C7: a move event equal to the one handled just before it leaves the
\* overlay as it was: same marker object, same position, same scene.
C7_Idempotent ==
  [][lastEvent'.repeated => (marker' = marker /\ center' = center /\ scene' = scene)]_vars

\* The same event was handled twice in succession while the marker is shown.
C7_Witness == Handled /\ lastEvent.repeated /\ MarkerShown

\* C8: no instance ever has more than one marker in the scene, and a hit
\* while the marker is shown keeps the marker object and adds nothing to
\* the scene.
C8_OneMarker ==
  /\ [](\A t \in 1 .. toolCount : Cardinality({i \in scene : i.owner = t}) <= 1)
  /\ [][(lastEvent'.mupp # 0 /\ marker # None /\ marker' # None)
          => (marker' = marker /\ scene' = scene)]_vars

\* A hit that moved the shown marker to another vertex.
C8_Witness == Handled /\ lastEvent.prior = "other" /\ MarkerShown

\* C9: the scene holds markers of the active tool only, and never more than
\* one marker.
C9_ReleasedOnDeactivation ==
  /\ \A i \in scene : i.owner = mapTool
  /\ Cardinality(scene) <= 1

\* The layer the selection priority asks for: the supplied layer, else the
\* first selected layer, else the first vector layer of the registry.
PriorityLayer ==
  IF supplied # None THEN supplied
  ELSE IF selApiOk /\ Len(selected) > 0 THEN selected[1]
  ELSE IF \E i \in DOMAIN registry : LayerType(registry[i]) = "VectorLayer"
       THEN registry[Min({i \in DOMAIN registry : LayerType(registry[i]) = "VectorLayer"})]
       ELSE None

\* C10: a constructed tool operates on the supplied layer, else on the first
\* selected layer, else on the first vector layer of the registry.
C10_LayerPriority == self # None => layer = PriorityLayer

\* A tool that fell back to the registry and skipped a leading raster layer.
C10_Witness ==
  /\ self # None /\ supplied = None
  /\ (selected = <<>> \/ ~selApiOk)
  /\ layer # None /\ registry[1] # layer

\* C11: a tool whose construction has ended, by returning or by raising,
\* with self.layer set has a vector layer there, whatever layer was supplied
\* and whatever the selection and the registry hold.
C11_ChosenLayerIsVector ==
  /\ (self # None /\ layer # None) => LayerType(layer) = "VectorLayer"
  /\ aborted # None => LayerType(aborted) = "VectorLayer"

\* C12: a tool built without a layer stays without layer and index; every
\* move event it handles returns before querying an index, raises nothing
\* and leaves the marker absent.
C12_DisabledIsTerminalNoOp ==
  /\ []((self # None /\ layer = None) =>
          /\ ~index.built
          /\ MarkerAbsent
          /\ (lastEvent.mupp # 0 => (~exc /\ ~lastEvent.queried)))
  /\ [][(self # None /\ layer = None /\ self' = self) => (layer' = None /\ index' = index)]_vars

\* A disabled tool that handled the same move event twice in succession.
C12_Witness == self # None /\ layer = None /\ lastEvent.mupp # 0 /\ lastEvent.repeated

\* C13: no operation lets an exception reach the host.
C13_FailSilent == ~exc

\* The ids of the features the index of the instance holds.
IndexedIds == {index.entries[i].fid : i \in DOMAIN index.entries}

\* C14: toggle-on makes a newly constructed tool, with an index built from
\* the layer as it is now, the plugin's tool and the canvas's active tool;
\* toggle-off leaves the plugin without a tool and that tool not active.
C14_ToggleLifecycle ==
  [][/\ (~checked /\ checked') =>
          /\ toolCount' = toolCount + 1
          /\ self' = toolCount' /\ tool' = self' /\ mapTool' = self'
          /\ marker' = None
          /\ layer' # None =>
               /\ index'.built
               /\ {index'.entries[i].fid : i \in DOMAIN index'.entries}
                    = {f \in features'[layer'] : ~Catalogue[f].empty}
     /\ (checked /\ ~checked') => (tool' = None /\ (tool # None => mapTool' # tool))]_vars

\* C15: unload removes the action and leaves the plugin's tool not the
\* active map tool, whether the tool was active, deactivated or never built;
\* it stays so afterwards.
C15_Unload ==
  /\ [](action = "removed" => (tool # None => mapTool # tool))
  /\ [][(action = "set" /\ action' # "set")
          => (action' = "removed" /\ (tool' # None => mapTool' # tool'))]_vars

\* The plugin was unloaded while its tool was the active map tool.
C15_Witness == action = "removed" /\ tool # None /\ mapTool = None

\* The candidates of the handled event that were fetched with a geometry
\* that is not empty, and the vertices their decomposition gave.
Contributing ==
  {f \in SeqToSet(Candidates) : f \in features[layer] /\ ~Catalogue[f].empty}
ContributedVertices == UNION {SeqToSet(FeatureVertices[f]) : f \in Contributing}

\* C16: a candidate that cannot be fetched, has an empty geometry or does
\* not decompose contributes nothing and the search goes on: the marker is
\* at a nearest vertex of the other candidates when that is within the
\* tolerance, and absent otherwise.
C16_FailureIsolation ==
  Handled =>
    LET V == ContributedVertices
        dmin == Min({DistSq(v, P) : v \in V})
    IN IF V # {} /\ dmin <= T * T
       THEN MarkerShown /\ center \in V /\ DistSq(center, P) = dmin
       ELSE MarkerAbsent

\* A hit found after an earlier candidate could not be fetched and another
\* did not decompose.
C16_Witness ==
  /\ Handled /\ MarkerShown
  /\ \E i, j, k \in DOMAIN Candidates :
       /\ i < k /\ j < k
       /\ Candidates[i] \notin features[layer]
       /\ Candidates[j] \in features[layer] /\ FeatureVertices[Candidates[j]] = <<>>
       /\ center \in SeqToSet(FeatureVertices[Candidates[k]])

\* C17: the index of a constructed tool holds, once each, exactly the
\* features of the layer whose insertion did not fail.
C17_IndexCoversInsertable ==
  (self # None /\ layer # None) =>
    /\ index.built
    /\ IndexedIds = {f \in features[layer] : ~Catalogue[f].empty}
    /\ Len(index.entries) = Cardinality(IndexedIds)

\* A layer with a feature whose insertion fails and another that is indexed.
C17_Witness ==
  /\ self # None /\ layer # None
  /\ \E f \in features[layer] : Catalogue[f].empty
  /\ index.entries # <<>>

\* C18: a move event changes neither the layer nor the index of the
\* instance, and an edit of the layer leaves the index as it was built.
C18_FrameCondition ==
  /\ [][lastEvent'.mupp # 0 =>
          (self' = self /\ supplied' = supplied /\ layer' = layer /\ index' = index)]_vars
  /\ [][features' # features => (layer' = layer /\ index' = index)]_vars

\* A move event handled, twice, over an index that no longer matches the layer.
C18_Witness ==
  /\ Handled /\ lastEvent.repeated
  /\ IndexedIds # {f \in features[layer] : ~Catalogue[f].empty}

\* The overlay a move event leaves, from the cursor point, the scale, the
\* features of the layer and the index alone.
Outcome(cursor_pt, mupp, feats, idx) ==
  LET tol == ToleranceMap(mupp)
      ids == intersects(idx.entries, BufferBox(cursor_pt, tol))
      met == {v \in UNION {SeqToSet(FeatureVertices[f]) : f \in SeqToSet(ids) \cap feats} :
                DistSq(v, cursor_pt) <= tol * tol}
      first == NearestOver(NoNearest, ids, feats, cursor_pt)
  IN IF met = {} THEN [shown |-> FALSE, at |-> NoCenter]
     ELSE [shown |-> TRUE, at |-> first.vertex]

\* C19: marker presence and position after a move event are those Outcome
\* gives for the event and the layer and index contents, whatever events
\* came before.
C19_HistoryIndependent ==
  Handled =>
    LET o == Outcome(P, lastEvent.mupp, features[layer], index) IN
    /\ (marker # None) = o.shown
    /\ center = o.at

\* The event moved the marker from another vertex to (1,1).
C19_Witness ==
  /\ Handled /\ lastEvent.prior = "other"
  /\ P = XY(1, 0) /\ center = XY(1, 1)

====
